---- MODULE Spec2Model ----
(***************************************************************************)
(* Model of the durable file-management layer of src/src/uv_fs.c.          *)
(*                                                                         *)
(* One control thread (the libuv loop thread) runs the synchronous         *)
(* operations UvFsCreateFile2, UvFsRemoveFile, UvFsTruncateAndRenameFile,  *)
(* the submission UvFsCreateFile, UvFsCreateFileCancel and the after-work  *)
(* callback uvFsCreateFileAfterWorkCb.  Each accepted request is run by a  *)
(* thread-pool worker (uvFsCreateFileWorkCb).  Every step is one system    *)
(* call (plus the thread-local code around it), so workers interleave      *)
(* with the control thread and with each other between system calls.       *)
(*                                                                         *)
(* A system call whose result the code checks may fail by an injected      *)
(* fault ("EIO") besides its own reasons ("EEXIST", "ENOENT").  Calls      *)
(* whose result the code ignores (UvOsClose, the cleanup UvOsUnlink) act   *)
(* on the file system as POSIX defines them.                               *)
(***************************************************************************)
EXTENDS Integers, Sequences, FiniteSets, TLC

\* Bounds of the model.
NumReqs == 2      \* request objects (struct UvFsCreateFile) the caller owns
MaxOps == 2       \* operations the caller starts in one run
MaxSize == 2      \* largest file size

Names == {"f1", "f2"}           \* filenames of the one directory
Reqs == 1..NumReqs
Sizes == 1..MaxSize             \* sizes N > 0 of a creation
NumInit == Cardinality(Names)   \* inode numbers taken by the initial files

OK == "OK"                      \* the status 0
UV__ERROR == "UV__ERROR"
UV__CANCELED == "UV__CANCELED"
Unset == "unset"                \* a field of a request never written so far
NULL == <<>>                    \* no error message

VARIABLES
    files,    \* directory entries: filename -> [ino, size]; ino 0: no entry
    fds,      \* open file descriptors: [ino, mode]
    dirty,    \* names whose entry changed since the last directory fsync
    fs,       \* struct UvFs: [errmsg]
    ctl,      \* the synchronous operation the control thread runs or last ran
    req,      \* request objects: Reqs -> struct UvFsCreateFile (+ position)
    nextId,   \* operations started so far + 1
    heap      \* error messages allocated and not released so far

vars == <<files, fds, dirty, fs, ctl, req, nextId, heap>>

NoFile == [ino |-> 0, size |-> 0]
NoFd == [ino |-> 0, mode |-> "w"]
Exists(f) == files[f].ino # 0
InitIno(f) == IF f = "f1" THEN 1 ELSE 2
IdIno(id) == NumInit + id
\* The descriptor UvOsOpen returns for the file operation number id creates.
FdOf(id) == [ino |-> IdIno(id), mode |-> "w"]
Max(a, b) == IF a >= b THEN a ELSE b

\* Error-formatting collaborator: "<operation>: <system error text>".
uvSysErrMsg(op, rv) == <<op, rv>>
errMsgPrintf(text) == <<text>>

(***************************************************************************)
(* System-call layer (the UvOs wrappers): results, effects on directory.   *)
(***************************************************************************)
\* open(path, O_WRONLY | O_CREAT | O_EXCL)
UvOsOpenExclRes(f, fault) ==
    IF fault THEN "EIO" ELSE IF Exists(f) THEN "EEXIST" ELSE "ok"
\* open(path, O_RDWR)
UvOsOpenRdwrRes(f, fault) ==
    IF fault THEN "EIO" ELSE IF Exists(f) THEN "ok" ELSE "ENOENT"
\* unlink(path)
UvOsUnlinkRes(f, fault) ==
    IF fault THEN "EIO" ELSE IF Exists(f) THEN "ok" ELSE "ENOENT"
\* rename(path1, path2)
UvOsRenameRes(f1, fault) ==
    IF fault THEN "EIO" ELSE IF Exists(f1) THEN "ok" ELSE "ENOENT"
FaultRes(fault) == IF fault THEN "EIO" ELSE "ok"

FilesCreate(f, id) == [files EXCEPT ![f] = [ino |-> IdIno(id), size |-> 0]]
FilesUnlink(f) == [files EXCEPT ![f] = NoFile]
FilesRename(f1, f2) == [files EXCEPT ![f2] = files[f1], ![f1] = NoFile]
\* posix_fallocate(fd, 0, size): the file is at least size bytes long.
FilesFallocate(fd, size) ==
    [f \in Names |-> IF files[f].ino = fd.ino
                     THEN [files[f] EXCEPT !.size = Max(@, size)]
                     ELSE files[f]]
\* ftruncate(fd, size): the file is exactly size bytes long.
FilesTruncate(fd, size) ==
    [f \in Names |-> IF files[f].ino = fd.ino
                     THEN [files[f] EXCEPT !.size = size]
                     ELSE files[f]]
\* The names whose entry or file differs between the directory and g.
Changed(g) == {f \in Names : g[f] # files[f]}

(***************************************************************************)
(* Book-keeping of the model (no counterpart in the code): intf records    *)
(* that another operation changed a name this operation works on, after    *)
(* this operation began (intfCtl: a synchronous operation did); calls is   *)
(* the operation's system calls so far.                                    *)
(***************************************************************************)
CtlNames(c) ==
    CASE c.op = "truncate" -> {c.filename, c.filename2}
      [] c.op \in {"create", "remove"} -> {c.filename}
      [] OTHER -> {}
MarkCtl(c, S) ==
    IF (S \cap CtlNames(c)) # {} THEN [c EXCEPT !.intf = TRUE] ELSE c
MarkReq(q, S) ==
    IF q.pc # "idle" /\ q.filename \in S THEN [q EXCEPT !.intf = TRUE] ELSE q
\* The same when the change was made by a synchronous operation.
MarkReqCtl(q, S) ==
    IF q.pc # "idle" /\ q.filename \in S
    THEN [q EXCEPT !.intf = TRUE, !.intfCtl = TRUE] ELSE q
\* The requests after request r became q and the names S changed.
ReqsAfter(r, q, S) ==
    [x \in Reqs |-> IF x = r THEN q ELSE MarkReq(req[x], S)]
\* The requests after the control thread changed the names S.
ReqsMarked(S) == [x \in Reqs |-> MarkReqCtl(req[x], S)]

(***************************************************************************)
(* UvFsSetErrMsg, uvFsSyncDirThreadSafe                                    *)
(***************************************************************************)
\* heap.c, HeapFree: releasing NULL does nothing.
HeapFree(h, ptr) == IF ptr = NULL THEN h ELSE h - 1
\* The heap h after the message errmsg (if any) was allocated.
HeapAlloc(h, errmsg) == IF errmsg = NULL THEN h ELSE h + 1

UvFsSetErrMsg(f, errmsg) == [f EXCEPT !.errmsg = errmsg]
\* Line 28: the message the context held is released.
UvFsSetErrMsg_free(f, h) == HeapFree(h, f.errmsg)

SyncOutcomes == {"ok", "open", "fsync"}
\* out: which system call of the directory sync fails, if any.  The result:
\* the status, the message stored through *errmsg (given the one there) and
\* the system calls made.
uvFsSyncDirThreadSafe(out, errmsg) ==
    CASE out = "open" ->
           [rv |-> UV__ERROR,
            errmsg |-> uvSysErrMsg("open directory", "EIO"),
            calls |-> << <<"open directory", "EIO">> >>]
      [] out = "fsync" ->
           [rv |-> UV__ERROR,
            errmsg |-> uvSysErrMsg("fsync directory", "EIO"),
            calls |-> << <<"open directory", "ok">>,
                         <<"fsync directory", "EIO">>,
                         <<"close directory", "ok">> >>]
      [] OTHER ->
           [rv |-> OK,
            errmsg |-> errmsg,
            calls |-> << <<"open directory", "ok">>,
                         <<"fsync directory", "ok">>,
                         <<"close directory", "ok">> >>]
\* The entries known durable after the sync.
DirtyAfterSync(rv) == IF rv = OK THEN {} ELSE dirty

(***************************************************************************)
(* Initial state: UvFsInit on a directory holding any of the files.        *)
(***************************************************************************)
\* The control thread's operation: the parameters and locals of the code
\* (filename, filename2, size, fd, errmsg, rv), its position pc, and the
\* model's book-keeping: op, id, calls, intf and the files found at the
\* call under filename (file0) and filename2 (file2).
CtlInit ==
    [pc |-> "idle", op |-> "none", filename |-> "f1", filename2 |-> "f1",
     size |-> 0, id |-> 0, fd |-> NoFd, rv |-> OK, calls |-> <<>>,
     errmsg |-> NULL, intf |-> FALSE, file0 |-> NoFile, file2 |-> NoFile]
\* struct UvFsCreateFile (filename, size, cb, canceled, status, fd, errmsg),
\* the worker's local errmsg (local), the position pc, and the model's
\* book-keeping: id, calls, intf, file0 (the file found under filename by
\* the worker's open), wstatus (the status the worker recorded), cancelAt
\* (where the worker was when UvFsCreateFileCancel was called), what the
\* callback was given (cbStatus) and found in the context (cbErrMsg), and
\* the numbers of after-work callbacks (afterCount), outcome recordings
\* (workCount) and callback invocations (cbCount).
ReqInit ==
    [pc |-> "idle", filename |-> "f1", size |-> 0, cb |-> FALSE,
     canceled |-> FALSE, status |-> Unset, fd |-> NoFd, errmsg |-> NULL,
     id |-> 0, calls |-> <<>>, local |-> NULL, intf |-> FALSE,
     intfCtl |-> FALSE, file0 |-> NoFile, wstatus |-> Unset, cancelAt |-> Unset,
     cbStatus |-> Unset, cbErrMsg |-> NULL,
     cbCount |-> 0, afterCount |-> 0, workCount |-> 0]

Init ==
    /\ \E S \in SUBSET Names :
          files = [f \in Names |->
                     IF f \in S THEN [ino |-> InitIno(f), size |-> MaxSize]
                     ELSE NoFile]
    /\ fds = {}
    /\ dirty = {}
    /\ fs = [errmsg |-> NULL]
    /\ ctl = CtlInit
    /\ req = [r \in Reqs |-> ReqInit]
    /\ nextId = 1
    /\ heap = 0

CtlFree == ctl.pc \in {"idle", "done"}
\* The control thread returns rv from the operation c.
Return(c, rv) == [c EXCEPT !.pc = "done", !.rv = rv]
Log(c, entries) == [c EXCEPT !.calls = @ \o entries]

(***************************************************************************)
(* UvFsCreateFile2 (control thread)                                        *)
(***************************************************************************)
\* Mutants of UvFsCreateFile2_goto: the directory sync is skipped; a failed
\* preallocation goes to err: (no cleanup).
UvFsCreateFile2_goto_noSync(step, ok) ==
    CASE step = "open" -> IF ok THEN "fallocate" ELSE "err"
      [] step = "fallocate" -> IF ok THEN "return" ELSE "err_after_open"
      [] step = "syncdir" -> IF ok THEN "return" ELSE "err_after_open"
UvFsCreateFile2_goto_noCleanup(step, ok) ==
    CASE step = "open" -> IF ok THEN "fallocate" ELSE "err"
      [] step = "fallocate" -> IF ok THEN "syncdir" ELSE "err"
      [] step = "syncdir" -> IF ok THEN "return" ELSE "err_after_open"

\* Where the code goes after the system call of a step, by its result.
UvFsCreateFile2_goto(step, ok) ==
    CASE step = "open" -> IF ok THEN "fallocate" ELSE "err"
      [] step = "fallocate" -> IF ok THEN "syncdir" ELSE "err_after_open"
      [] step = "syncdir" -> IF ok THEN "return" ELSE "err_after_open"

\* The operation c at label target: err: stores the message in the context
\* and returns, return is line 100, any other label is the next step.
UvFsCreateFile2_at(c, target, errmsg) ==
    CASE target = "err" -> Return([c EXCEPT !.errmsg = errmsg], UV__ERROR)
      [] target = "return" -> Return(c, OK)
      [] OTHER -> [c EXCEPT !.pc = target, !.errmsg = errmsg]
\* The context when the control thread reaches label target.
FsAt(target, errmsg) ==
    IF target = "err" THEN UvFsSetErrMsg(fs, errmsg) ELSE fs
\* The heap h when the control thread reaches label target.
HeapAt(target, h) ==
    IF target = "err" THEN UvFsSetErrMsg_free(fs, h) ELSE h

\* Lines 66-80: join, exclusive open.
UvFsCreateFile2_open ==
    /\ CtlFree
    /\ nextId <= MaxOps
    /\ \E filename \in Names, size \in Sizes, fault \in BOOLEAN :
         LET res == UvOsOpenExclRes(filename, fault)
             ok == res = "ok"
             target == UvFsCreateFile2_goto("open", ok)
             errmsg == IF ok THEN NULL ELSE uvSysErrMsg("open", res)
             c == [CtlInit EXCEPT !.op = "create", !.filename = filename,
                                  !.size = size, !.id = nextId,
                                  !.file0 = files[filename],
                                  !.fd = IF ok THEN FdOf(nextId) ELSE NoFd,
                                  !.calls = << <<"open", res>> >>]
         IN /\ ctl' = UvFsCreateFile2_at(c, target, errmsg)
            /\ fs' = FsAt(target, errmsg)
            /\ files' = IF ok THEN FilesCreate(filename, nextId) ELSE files
            /\ fds' = IF ok THEN fds \cup {FdOf(nextId)} ELSE fds
            /\ dirty' = IF ok THEN dirty \cup {filename} ELSE dirty
            /\ req' = ReqsMarked(Changed(files'))
            /\ heap' = HeapAt(target, HeapAlloc(heap, errmsg))
    /\ nextId' = nextId + 1

\* Lines 82-93: preallocate.
UvFsCreateFile2_fallocate ==
    /\ ctl.op = "create" /\ ctl.pc = "fallocate"
    /\ \E fault \in BOOLEAN :
         LET res == FaultRes(fault)
             ok == res = "ok"
             target == UvFsCreateFile2_goto("fallocate", ok)
             errmsg == IF ok THEN NULL
                       ELSE uvSysErrMsg("posix_fallocate", res)
             c == Log(ctl, << <<"posix_fallocate", res>> >>)
         IN /\ ctl' = UvFsCreateFile2_at(c, target, errmsg)
            /\ fs' = FsAt(target, errmsg)
            /\ files' = IF ok THEN FilesFallocate(ctl.fd, ctl.size) ELSE files
            /\ req' = ReqsMarked(Changed(files'))
            /\ heap' = HeapAt(target, HeapAlloc(heap, errmsg))
    /\ UNCHANGED <<fds, dirty, nextId>>

\* Lines 95-100: directory sync.
UvFsCreateFile2_syncDir ==
    /\ ctl.op = "create" /\ ctl.pc = "syncdir"
    /\ \E out \in SyncOutcomes :
         LET s == uvFsSyncDirThreadSafe(out, NULL)
             target == UvFsCreateFile2_goto("syncdir", s.rv = OK)
         IN /\ ctl' = UvFsCreateFile2_at(Log(ctl, s.calls), target, s.errmsg)
            /\ fs' = FsAt(target, s.errmsg)
            /\ dirty' = DirtyAfterSync(s.rv)
            /\ heap' = HeapAt(target, HeapAlloc(heap, s.errmsg))
    /\ UNCHANGED <<files, fds, req, nextId>>

\* Lines 102-108: err_after_open: close, unlink; then err:.
UvFsCreateFile2_errAfterOpen ==
    /\ ctl.op = "create" /\ ctl.pc = "err_after_open"
    /\ LET res == UvOsUnlinkRes(ctl.filename, FALSE)
           c == Log(ctl, << <<"close", "ok">>, <<"unlink", res>> >>)
       IN /\ ctl' = UvFsCreateFile2_at(c, "err", ctl.errmsg)
          /\ fs' = FsAt("err", ctl.errmsg)
          /\ heap' = HeapAt("err", heap)
          /\ fds' = fds \ {ctl.fd}
          /\ files' = FilesUnlink(ctl.filename)
          /\ dirty' = IF res = "ok" THEN dirty \cup {ctl.filename} ELSE dirty
          /\ req' = ReqsMarked(Changed(files'))
    /\ UNCHANGED nextId

(***************************************************************************)
(* Asynchronous creation: UvFsCreateFile, the worker uvFsCreateFileWorkCb, *)
(* uvFsCreateFileAfterWorkCb, UvFsCreateFileCancel                         *)
(***************************************************************************)
ReqFree(r) == req[r].pc \in {"idle", "rejected", "finalized"}
\* The caller's request objects are interchangeable: it takes the first free.
FirstFree(r) == ReqFree(r) /\ \A x \in Reqs : ReqFree(x) => r <= x
\* From uv_queue_work's acceptance until the after-work callback.
InFlight(r) ==
    req[r].pc \in {"queued", "fallocate", "syncdir", "err_after_open", "worked"}

\* Lines 203-221.  status and fd are not written: they keep what the
\* request object held.  accept: whether uv_queue_work takes the work.
UvFsCreateFile(r) ==
    /\ CtlFree
    /\ FirstFree(r)
    /\ nextId <= MaxOps
    /\ \E filename \in Names, size \in Sizes, cb \in BOOLEAN, accept \in BOOLEAN :
         LET q == [ReqInit EXCEPT !.filename = filename, !.size = size,
                                  !.cb = cb, !.canceled = FALSE,
                                  !.errmsg = NULL, !.status = req[r].status,
                                  !.fd = req[r].fd, !.id = nextId]
             c == [CtlInit EXCEPT !.op = "submit", !.filename = filename,
                                  !.size = size, !.id = nextId]
             errmsg == uvSysErrMsg("uv_queue_work", "EIO")
         IN IF accept
            THEN /\ req' = [req EXCEPT ![r] = [q EXCEPT !.pc = "queued"]]
                 /\ ctl' = Return(c, OK)
                 /\ UNCHANGED <<fs, heap>>
            ELSE /\ req' = [req EXCEPT ![r] = [q EXCEPT !.pc = "rejected"]]
                 /\ ctl' = Return([c EXCEPT !.errmsg = errmsg], UV__ERROR)
                 /\ fs' = UvFsSetErrMsg(fs, errmsg)
                 /\ heap' = UvFsSetErrMsg_free(fs, HeapAlloc(heap, errmsg))
    /\ nextId' = nextId + 1
    /\ UNCHANGED <<files, fds, dirty>>

\* Mutant of UvFsCreateFileCancel_write: the cancellation is also recorded
\* as the request's status at once.
UvFsCreateFileCancel_write_status(q) ==
    [q EXCEPT !.canceled = TRUE, !.status = UV__CANCELED]

\* Line 225: what UvFsCreateFileCancel writes in the request.
UvFsCreateFileCancel_write(q) == [q EXCEPT !.canceled = TRUE]

\* Lines 223-226.
UvFsCreateFileCancel(r) ==
    /\ CtlFree
    /\ InFlight(r)
    /\ ~req[r].canceled
    /\ req' = [req EXCEPT ![r] = [UvFsCreateFileCancel_write(req[r])
                                   EXCEPT !.cancelAt = req[r].pc]]
    /\ UNCHANGED <<files, fds, dirty, fs, ctl, nextId, heap>>

\* Mutants of uvFsCreateFileWorkCb_goto: a failed open goes to
\* err_after_open: (cleanup of a file never opened); a failed directory
\* sync goes to err: (no cleanup).
uvFsCreateFileWorkCb_goto_cleanupAlways(step, ok) ==
    CASE step = "open" -> IF ok THEN "fallocate" ELSE "err_after_open"
      [] step = "fallocate" -> IF ok THEN "syncdir" ELSE "err_after_open"
      [] step = "syncdir" -> IF ok THEN "return" ELSE "err_after_open"
uvFsCreateFileWorkCb_goto_keepOnSyncError(step, ok) ==
    CASE step = "open" -> IF ok THEN "fallocate" ELSE "err"
      [] step = "fallocate" -> IF ok THEN "syncdir" ELSE "err_after_open"
      [] step = "syncdir" -> IF ok THEN "return" ELSE "err"
\* A failed preallocation goes to err: (no cleanup).
uvFsCreateFileWorkCb_goto_noCleanup(step, ok) ==
    CASE step = "open" -> IF ok THEN "fallocate" ELSE "err"
      [] step = "fallocate" -> IF ok THEN "syncdir" ELSE "err"
      [] step = "syncdir" -> IF ok THEN "return" ELSE "err_after_open"

\* Where the worker goes after the system call of a step, by its result.
uvFsCreateFileWorkCb_goto(step, ok) ==
    CASE step = "open" -> IF ok THEN "fallocate" ELSE "err"
      [] step = "fallocate" -> IF ok THEN "syncdir" ELSE "err_after_open"
      [] step = "syncdir" -> IF ok THEN "return" ELSE "err_after_open"

\* The request q at label target: err: is lines 159-163, return is lines
\* 151-154, any other label is the worker's next step.
uvFsCreateFileWorkCb_at(q, target, errmsg) ==
    CASE target = "err" ->
           [q EXCEPT !.pc = "worked", !.errmsg = errmsg,
                     !.status = UV__ERROR, !.wstatus = UV__ERROR,
                     !.workCount = @ + 1]
      [] target = "return" ->
           [q EXCEPT !.pc = "worked", !.errmsg = NULL, !.status = OK,
                     !.fd = FdOf(q.id), !.wstatus = OK, !.workCount = @ + 1]
      [] OTHER -> [q EXCEPT !.pc = target, !.local = errmsg]

\* Mutant of uvFsCreateFileWorkCb_fsAt: the worker's err: label stores the
\* message in the context, as the one of UvFsCreateFile2 does.
uvFsCreateFileWorkCb_fsAt_setErrMsg(target, errmsg) ==
    IF target = "err" THEN UvFsSetErrMsg(fs, errmsg) ELSE fs

\* The context when the worker reaches label target: the worker writes its
\* locals and the request only (lines 151-153, 161-162).
uvFsCreateFileWorkCb_fsAt(target, errmsg) == fs

\* Lines 113-129: join, exclusive open.
uvFsCreateFileWorkCb_open(r) ==
    /\ req[r].pc = "queued"
    /\ \E fault \in BOOLEAN :
         LET res == UvOsOpenExclRes(req[r].filename, fault)
             ok == res = "ok"
             target == uvFsCreateFileWorkCb_goto("open", ok)
             errmsg == IF ok THEN NULL ELSE uvSysErrMsg("open", res)
             q == [req[r] EXCEPT !.calls = << <<"open", res>> >>,
                                 !.file0 = files[req[r].filename]]
         IN /\ files' = IF ok THEN FilesCreate(req[r].filename, req[r].id)
                        ELSE files
            /\ fds' = IF ok THEN fds \cup {FdOf(req[r].id)} ELSE fds
            /\ dirty' = IF ok THEN dirty \cup {req[r].filename} ELSE dirty
            /\ req' = ReqsAfter(r, uvFsCreateFileWorkCb_at(q, target, errmsg),
                                Changed(files'))
            /\ ctl' = MarkCtl(ctl, Changed(files'))
            /\ fs' = uvFsCreateFileWorkCb_fsAt(target, errmsg)
            /\ heap' = HeapAlloc(heap, errmsg)
    /\ UNCHANGED nextId

\* Lines 131-144: preallocate.
uvFsCreateFileWorkCb_fallocate(r) ==
    /\ req[r].pc = "fallocate"
    /\ \E fault \in BOOLEAN :
         LET res == FaultRes(fault)
             ok == res = "ok"
             target == uvFsCreateFileWorkCb_goto("fallocate", ok)
             errmsg == IF ok THEN NULL
                       ELSE uvSysErrMsg("posix_fallocate", res)
             q == [req[r] EXCEPT !.calls = @ \o << <<"posix_fallocate", res>> >>]
         IN /\ files' = IF ok THEN FilesFallocate(FdOf(req[r].id), req[r].size)
                        ELSE files
            /\ req' = ReqsAfter(r, uvFsCreateFileWorkCb_at(q, target, errmsg),
                                Changed(files'))
            /\ ctl' = MarkCtl(ctl, Changed(files'))
            /\ fs' = uvFsCreateFileWorkCb_fsAt(target, errmsg)
            /\ heap' = HeapAlloc(heap, errmsg)
    /\ UNCHANGED <<fds, dirty, nextId>>

\* Lines 146-154: directory sync.
uvFsCreateFileWorkCb_syncDir(r) ==
    /\ req[r].pc = "syncdir"
    /\ \E out \in SyncOutcomes :
         LET s == uvFsSyncDirThreadSafe(out, NULL)
             target == uvFsCreateFileWorkCb_goto("syncdir", s.rv = OK)
             q == [req[r] EXCEPT !.calls = @ \o s.calls]
         IN /\ req' = [req EXCEPT ![r] =
                         uvFsCreateFileWorkCb_at(q, target, s.errmsg)]
            /\ dirty' = DirtyAfterSync(s.rv)
            /\ fs' = uvFsCreateFileWorkCb_fsAt(target, s.errmsg)
            /\ heap' = HeapAlloc(heap, s.errmsg)
    /\ UNCHANGED <<files, fds, ctl, nextId>>

\* Lines 156-163: err_after_open: close, unlink; then err:.
uvFsCreateFileWorkCb_errAfterOpen(r) ==
    /\ req[r].pc = "err_after_open"
    /\ LET res == UvOsUnlinkRes(req[r].filename, FALSE)
           q == [req[r] EXCEPT
                   !.calls = @ \o << <<"close", "ok">>, <<"unlink", res>> >>]
       IN /\ fds' = fds \ {FdOf(req[r].id)}
          /\ files' = FilesUnlink(req[r].filename)
          /\ dirty' = IF res = "ok" THEN dirty \cup {req[r].filename} ELSE dirty
          /\ req' = ReqsAfter(r, uvFsCreateFileWorkCb_at(q, "err", req[r].local),
                              Changed(files'))
          /\ ctl' = MarkCtl(ctl, Changed(files'))
          /\ fs' = uvFsCreateFileWorkCb_fsAt("err", req[r].local)
    /\ UNCHANGED <<nextId, heap>>

\* Mutants of the after-work callback: a canceled creation is not undone;
\* a canceled request keeps the worker's failure; the callback of a canceled
\* request is not invoked.
AfterWorkUndo_never(q) == FALSE
AfterWorkStatus_keepFailure(q) ==
    IF q.canceled /\ q.status = OK THEN UV__CANCELED ELSE q.status
AfterWorkCbCalls_skipCanceled(q) == IF q.cb /\ ~q.canceled THEN 1 ELSE 0
\* Every canceled request is undone, whatever its worker recorded.
AfterWorkUndo_anyCanceled(q) == q.canceled

\* Lines 173-178: whether the after-work callback undoes the creation.
AfterWorkUndo(q) == q.canceled /\ q.status = OK
\* Lines 173-184: the status and the message the request ends with.
AfterWorkStatus(q) == IF q.canceled THEN UV__CANCELED ELSE q.status
AfterWorkErrMsg(q) ==
    IF q.canceled THEN errMsgPrintf("canceled") ELSE q.errmsg
\* Lines 189-191: how many times the callback is invoked.
AfterWorkCbCalls(q) == IF q.cb THEN 1 ELSE 0
\* Lines 173-182: the heap h after the request's message was settled: the
\* message of a canceled request that failed is released, "canceled" is
\* allocated.
AfterWorkHeap(q, h) ==
    IF q.canceled
    THEN HeapAlloc(IF q.status = OK THEN h ELSE HeapFree(h, q.errmsg),
                   errMsgPrintf("canceled"))
    ELSE h

\* Lines 166-192, on the control thread once the worker has returned.
uvFsCreateFileAfterWorkCb(r) ==
    /\ CtlFree
    /\ req[r].pc = "worked"
    /\ LET undo == AfterWorkUndo(req[r])
           res == UvOsUnlinkRes(req[r].filename, FALSE)
           errmsg == AfterWorkErrMsg(req[r])
           status == AfterWorkStatus(req[r])
           n == AfterWorkCbCalls(req[r])
           q == [req[r] EXCEPT
                   !.pc = "finalized", !.errmsg = errmsg, !.status = status,
                   !.calls = IF undo
                             THEN @ \o << <<"close", "ok">>, <<"unlink", res>> >>
                             ELSE @,
                   !.afterCount = @ + 1,
                   !.cbCount = @ + n,
                   !.cbStatus = IF n > 0 THEN status ELSE @,
                   !.cbErrMsg = UvFsSetErrMsg(fs, errmsg).errmsg]
       IN /\ fds' = IF undo THEN fds \ {req[r].fd} ELSE fds
          /\ files' = IF undo THEN FilesUnlink(req[r].filename) ELSE files
          /\ dirty' = IF undo /\ res = "ok" THEN dirty \cup {req[r].filename}
                      ELSE dirty
          /\ req' = ReqsAfter(r, q, Changed(files'))
          /\ ctl' = MarkCtl(ctl, Changed(files'))
          /\ fs' = UvFsSetErrMsg(fs, errmsg)
          /\ heap' = UvFsSetErrMsg_free(fs, AfterWorkHeap(req[r], heap))
    /\ UNCHANGED nextId

(***************************************************************************)
(* UvFsRemoveFile                                                          *)
(***************************************************************************)
\* Lines 50-58: the message of a failed sync is stored through &fs->errmsg;
\* heap: the heap afterwards, the message of a failed sync being allocated.
uvFsSyncDir(f, out) ==
    LET s == uvFsSyncDirThreadSafe(out, f.errmsg)
    IN [rv |-> s.rv, fs |-> [f EXCEPT !.errmsg = s.errmsg], calls |-> s.calls,
        heap |-> IF s.rv = OK THEN heap ELSE HeapAlloc(heap, s.errmsg)]

\* Mutant of UvFsRemoveFile_rv: the status of the directory sync is returned.
UvFsRemoveFile_rv_ofSync(rv) == rv

\* Lines 238-242: what UvFsRemoveFile returns after the directory sync
\* returned rv.
UvFsRemoveFile_rv(rv) == OK

\* Lines 230-237.
UvFsRemoveFile_unlink ==
    /\ CtlFree
    /\ nextId <= MaxOps
    /\ \E filename \in Names, fault \in BOOLEAN :
         LET res == UvOsUnlinkRes(filename, fault)
             ok == res = "ok"
             errmsg == uvSysErrMsg("unlink", res)
             c == [CtlInit EXCEPT !.op = "remove", !.filename = filename,
                                  !.id = nextId, !.file0 = files[filename],
                                  !.calls = << <<"unlink", res>> >>]
         IN /\ ctl' = IF ok THEN [c EXCEPT !.pc = "syncdir"]
                      ELSE Return([c EXCEPT !.errmsg = errmsg], UV__ERROR)
            /\ fs' = IF ok THEN fs ELSE UvFsSetErrMsg(fs, errmsg)
            /\ files' = IF ok THEN FilesUnlink(filename) ELSE files
            /\ dirty' = IF ok THEN dirty \cup {filename} ELSE dirty
            /\ req' = ReqsMarked(Changed(files'))
            /\ heap' = IF ok THEN heap
                        ELSE UvFsSetErrMsg_free(fs, HeapAlloc(heap, errmsg))
    /\ nextId' = nextId + 1
    /\ UNCHANGED fds

\* Lines 238-242.
UvFsRemoveFile_syncDir ==
    /\ ctl.op = "remove" /\ ctl.pc = "syncdir"
    /\ \E out \in SyncOutcomes :
         LET s == uvFsSyncDir(fs, out)
         IN /\ ctl' = Return(Log(ctl, s.calls), UvFsRemoveFile_rv(s.rv))
            /\ fs' = s.fs
            /\ heap' = s.heap
            /\ dirty' = DirtyAfterSync(s.rv)
    /\ UNCHANGED <<files, fds, req, nextId>>

(***************************************************************************)
(* UvFsTruncateAndRenameFile (filename1 and filename2 differ)              *)
(***************************************************************************)
\* Mutants of UvFsTruncateAndRenameFile_first: the test is size <= 1; the
\* special case of size 0 is missing.
UvFsTruncateAndRenameFile_first_offByOne(size) ==
    IF size <= 1 THEN "unlink" ELSE "open"
UvFsTruncateAndRenameFile_first_alwaysOpen(size) == "open"

\* Line 261: the first step.
UvFsTruncateAndRenameFile_first(size) == IF size = 0 THEN "unlink" ELSE "open"

\* Mutant of UvFsTruncateAndRenameFile_goto: the result of the truncate is
\* not checked.
UvFsTruncateAndRenameFile_goto_uncheckedTruncate(step, ok) ==
    CASE step = "unlink" -> IF ok THEN "sync" ELSE "err"
      [] step = "open" -> IF ok THEN "truncate" ELSE "err"
      [] step = "truncate" -> "fsync"
      [] step = "fsync" -> IF ok THEN "rename" ELSE "err_after_open"
      [] step = "rename" -> IF ok THEN "sync" ELSE "err"

\* Where the code goes after the system call of a step, by its result.
UvFsTruncateAndRenameFile_goto(step, ok) ==
    CASE step = "unlink" -> IF ok THEN "sync" ELSE "err"
      [] step = "open" -> IF ok THEN "truncate" ELSE "err"
      [] step = "truncate" -> IF ok THEN "fsync" ELSE "err_after_open"
      [] step = "fsync" -> IF ok THEN "rename" ELSE "err_after_open"
      [] step = "rename" -> IF ok THEN "sync" ELSE "err"

\* The operation c at label target: err_after_open: closes the descriptor
\* and falls into err:, which stores the message and returns UV__ERROR.
UvFsTruncateAndRenameFile_at(c, target, errmsg) ==
    CASE target = "err" -> Return([c EXCEPT !.errmsg = errmsg], UV__ERROR)
      [] target = "err_after_open" ->
           Return([Log(c, << <<"close", "ok">> >>) EXCEPT !.errmsg = errmsg],
                  UV__ERROR)
      [] OTHER -> [c EXCEPT !.pc = target]
TruncateFsAt(target, errmsg) ==
    IF target \in {"err", "err_after_open"} THEN UvFsSetErrMsg(fs, errmsg)
    ELSE fs
\* Mutant of TruncateFdsAt: err_after_open: does not close the descriptor.
TruncateFdsAt_noClose(target, fd) == fds

TruncateFdsAt(target, fd) ==
    IF target = "err_after_open" THEN fds \ {fd} ELSE fds
\* The heap at label target: the message was allocated before the goto.
TruncateHeapAt(target, errmsg) ==
    IF target \in {"err", "err_after_open"}
    THEN UvFsSetErrMsg_free(fs, HeapAlloc(heap, errmsg))
    ELSE heap

TruncateCall(size, filename1, filename2) ==
    [CtlInit EXCEPT !.op = "truncate", !.filename = filename1,
                    !.filename2 = filename2, !.size = size, !.id = nextId,
                    !.file0 = files[filename1], !.file2 = files[filename2]]

\* Lines 257-268: unlink the original file.
UvFsTruncateAndRenameFile_unlink ==
    /\ CtlFree
    /\ nextId <= MaxOps
    /\ \E size \in 0..MaxSize, filename1 \in Names, filename2 \in Names,
          fault \in BOOLEAN :
         /\ filename1 # filename2
         /\ UvFsTruncateAndRenameFile_first(size) = "unlink"
         /\ LET res == UvOsUnlinkRes(filename1, fault)
                ok == res = "ok"
                target == UvFsTruncateAndRenameFile_goto("unlink", ok)
                errmsg == uvSysErrMsg("unlink", res)
                c == Log(TruncateCall(size, filename1, filename2),
                         << <<"unlink", res>> >>)
            IN /\ ctl' = UvFsTruncateAndRenameFile_at(c, target, errmsg)
               /\ fs' = TruncateFsAt(target, errmsg)
               /\ heap' = TruncateHeapAt(target, errmsg)
               /\ files' = IF ok THEN FilesUnlink(filename1) ELSE files
               /\ dirty' = IF ok THEN dirty \cup {filename1} ELSE dirty
               /\ req' = ReqsMarked(Changed(files'))
    /\ nextId' = nextId + 1
    /\ UNCHANGED fds

\* Lines 270-276: open the original file.
UvFsTruncateAndRenameFile_open ==
    /\ CtlFree
    /\ nextId <= MaxOps
    /\ \E size \in 0..MaxSize, filename1 \in Names, filename2 \in Names,
          fault \in BOOLEAN :
         /\ filename1 # filename2
         /\ UvFsTruncateAndRenameFile_first(size) = "open"
         /\ LET res == UvOsOpenRdwrRes(filename1, fault)
                ok == res = "ok"
                target == UvFsTruncateAndRenameFile_goto("open", ok)
                errmsg == uvSysErrMsg("open", res)
                fd == [ino |-> files[filename1].ino, mode |-> "rw"]
                c == Log(TruncateCall(size, filename1, filename2),
                         << <<"open", res>> >>)
            IN /\ ctl' = UvFsTruncateAndRenameFile_at(
                           [c EXCEPT !.fd = IF ok THEN fd ELSE NoFd],
                           target, errmsg)
               /\ fs' = TruncateFsAt(target, errmsg)
               /\ heap' = TruncateHeapAt(target, errmsg)
               /\ fds' = IF ok THEN fds \cup {fd} ELSE fds
    /\ nextId' = nextId + 1
    /\ UNCHANGED <<files, dirty, req>>

\* Lines 277-281.
UvFsTruncateAndRenameFile_truncate ==
    /\ ctl.op = "truncate" /\ ctl.pc = "truncate"
    /\ \E fault \in BOOLEAN :
         LET res == FaultRes(fault)
             ok == res = "ok"
             target == UvFsTruncateAndRenameFile_goto("truncate", ok)
             errmsg == uvSysErrMsg("truncate", res)
             c == Log(ctl, << <<"truncate", res>> >>)
         IN /\ ctl' = UvFsTruncateAndRenameFile_at(c, target, errmsg)
            /\ fs' = TruncateFsAt(target, errmsg)
            /\ heap' = TruncateHeapAt(target, errmsg)
            /\ fds' = TruncateFdsAt(target, ctl.fd)
            /\ files' = IF ok THEN FilesTruncate(ctl.fd, ctl.size) ELSE files
            /\ req' = ReqsMarked(Changed(files'))
    /\ UNCHANGED <<dirty, nextId>>

\* Lines 282-287: fsync the file and, if that succeeded, close it.
UvFsTruncateAndRenameFile_fsync ==
    /\ ctl.op = "truncate" /\ ctl.pc = "fsync"
    /\ \E fault \in BOOLEAN :
         LET res == FaultRes(fault)
             ok == res = "ok"
             target == UvFsTruncateAndRenameFile_goto("fsync", ok)
             errmsg == uvSysErrMsg("fsync", res)
             c == Log(ctl, IF ok THEN << <<"fsync", res>>, <<"close", "ok">> >>
                           ELSE << <<"fsync", res>> >>)
         IN /\ ctl' = UvFsTruncateAndRenameFile_at(c, target, errmsg)
            /\ fs' = TruncateFsAt(target, errmsg)
            /\ heap' = TruncateHeapAt(target, errmsg)
            /\ fds' = IF ok THEN fds \ {ctl.fd}
                      ELSE TruncateFdsAt(target, ctl.fd)
    /\ UNCHANGED <<files, dirty, req, nextId>>

\* Lines 289-293.
UvFsTruncateAndRenameFile_rename ==
    /\ ctl.op = "truncate" /\ ctl.pc = "rename"
    /\ \E fault \in BOOLEAN :
         LET res == UvOsRenameRes(ctl.filename, fault)
             ok == res = "ok"
             target == UvFsTruncateAndRenameFile_goto("rename", ok)
             errmsg == uvSysErrMsg("rename", res)
             c == Log(ctl, << <<"rename", res>> >>)
         IN /\ ctl' = UvFsTruncateAndRenameFile_at(c, target, errmsg)
            /\ fs' = TruncateFsAt(target, errmsg)
            /\ heap' = TruncateHeapAt(target, errmsg)
            /\ fds' = TruncateFdsAt(target, ctl.fd)
            /\ files' = IF ok THEN FilesRename(ctl.filename, ctl.filename2)
                        ELSE files
            /\ dirty' = IF ok THEN dirty \cup {ctl.filename, ctl.filename2}
                        ELSE dirty
            /\ req' = ReqsMarked(Changed(files'))
    /\ UNCHANGED nextId

\* Lines 295-300.
UvFsTruncateAndRenameFile_syncDir ==
    /\ ctl.op = "truncate" /\ ctl.pc = "sync"
    /\ \E out \in SyncOutcomes :
         LET s == uvFsSyncDir(fs, out)
         IN /\ ctl' = Return(Log(ctl, s.calls), s.rv)
            /\ fs' = s.fs
            /\ heap' = s.heap
            /\ dirty' = DirtyAfterSync(s.rv)
    /\ UNCHANGED <<files, fds, req, nextId>>

Next ==
    \/ UvFsCreateFile2_open
    \/ UvFsCreateFile2_fallocate
    \/ UvFsCreateFile2_syncDir
    \/ UvFsCreateFile2_errAfterOpen
    \/ \E r \in Reqs : UvFsCreateFile(r)
    \/ \E r \in Reqs : UvFsCreateFileCancel(r)
    \/ \E r \in Reqs : uvFsCreateFileWorkCb_open(r)
    \/ \E r \in Reqs : uvFsCreateFileWorkCb_fallocate(r)
    \/ \E r \in Reqs : uvFsCreateFileWorkCb_syncDir(r)
    \/ \E r \in Reqs : uvFsCreateFileWorkCb_errAfterOpen(r)
    \/ \E r \in Reqs : uvFsCreateFileAfterWorkCb(r)
    \/ UvFsRemoveFile_unlink
    \/ UvFsRemoveFile_syncDir
    \/ UvFsTruncateAndRenameFile_unlink
    \/ UvFsTruncateAndRenameFile_open
    \/ UvFsTruncateAndRenameFile_truncate
    \/ UvFsTruncateAndRenameFile_fsync
    \/ UvFsTruncateAndRenameFile_rename
    \/ UvFsTruncateAndRenameFile_syncDir

Spec == Init /\ [][Next]_vars

\* The thread pool runs every queued worker to its end, the control thread
\* runs a synchronous operation to its return, and the loop runs the
\* after-work callback of a finished worker once the control thread is free.
WorkerStep(r) ==
    \/ uvFsCreateFileWorkCb_open(r)
    \/ uvFsCreateFileWorkCb_fallocate(r)
    \/ uvFsCreateFileWorkCb_syncDir(r)
    \/ uvFsCreateFileWorkCb_errAfterOpen(r)
CtlStep ==
    \/ UvFsCreateFile2_fallocate
    \/ UvFsCreateFile2_syncDir
    \/ UvFsCreateFile2_errAfterOpen
    \/ UvFsRemoveFile_syncDir
    \/ UvFsTruncateAndRenameFile_truncate
    \/ UvFsTruncateAndRenameFile_fsync
    \/ UvFsTruncateAndRenameFile_rename
    \/ UvFsTruncateAndRenameFile_syncDir
FairSpec ==
    /\ Spec
    /\ WF_vars(CtlStep)
    /\ \A r \in Reqs : WF_vars(WorkerStep(r))
    /\ \A r \in Reqs : WF_vars(uvFsCreateFileAfterWorkCb(r))

(***************************************************************************)
(* Vocabulary of the claims                                                *)
(***************************************************************************)
AllOk(calls) == \A i \in 1..Len(calls) : calls[i][2] = "ok"
\* The system calls of a creation in which none fails.
CreateCalls ==
    << <<"open", "ok">>, <<"posix_fallocate", "ok">>,
       <<"open directory", "ok">>, <<"fsync directory", "ok">>,
       <<"close directory", "ok">> >>
OpenFailed(calls) == Len(calls) >= 1 /\ calls[1][2] # "ok"
FallocateFailed(calls) ==
    /\ Len(calls) >= 2
    /\ calls[1] = <<"open", "ok">>
    /\ calls[2][1] = "posix_fallocate" /\ calls[2][2] # "ok"
SyncDirFailed(calls) ==
    /\ Len(calls) >= 3
    /\ calls[1] = <<"open", "ok">> /\ calls[2] = <<"posix_fallocate", "ok">>
    /\ \/ calls[3][2] # "ok"
       \/ Len(calls) >= 4 /\ calls[4][2] # "ok"
\* The close and unlink of a cleanup are the last two calls.
EndsWithCleanup(calls) ==
    /\ Len(calls) >= 2
    /\ calls[Len(calls) - 1] = <<"close", "ok">>
    /\ calls[Len(calls)][1] = "unlink"
\* UvFsCreateFile2 has returned; the worker of request r has returned.
CtlCreated == ctl.op = "create" /\ ctl.pc = "done"
ReqWorked(r) == req[r].pc \in {"worked", "finalized"}
\* The file that creation number id makes, of the given size.
Created(id, size) == [ino |-> IdIno(id), size |-> size]

(* C1: a creation in which no system call fails (so that the file did not  *)
(* exist) reports success, returns an open descriptor, has made exactly    *)
(* the calls open, posix_fallocate, directory sync in this order before    *)
(* success is reported and, unless another operation changed the name      *)
(* meanwhile, leaves the file with exactly the size asked for and its      *)
(* entry synced; a request not canceled hands success to its callback.     *)
C1_CreationSucceeds ==
    /\ (CtlCreated /\ AllOk(ctl.calls)) =>
          /\ ctl.rv = OK
          /\ ctl.fd = FdOf(ctl.id) /\ ctl.fd \in fds
          /\ ctl.calls = CreateCalls
          /\ ~ctl.intf =>
                /\ files[ctl.filename] = Created(ctl.id, ctl.size)
                /\ ctl.filename \notin dirty
    /\ \A r \in Reqs :
          (ReqWorked(r) /\ ~req[r].canceled /\ AllOk(req[r].calls)) =>
             /\ req[r].status = OK /\ req[r].errmsg = NULL
             /\ req[r].fd = FdOf(req[r].id) /\ req[r].fd \in fds
             /\ req[r].calls = CreateCalls
             /\ (req[r].pc = "finalized" /\ req[r].cb) => req[r].cbStatus = OK
             /\ ~req[r].intf =>
                   /\ files[req[r].filename] = Created(req[r].id, req[r].size)
                   /\ req[r].filename \notin dirty

C1_Witness ==
    /\ CtlCreated /\ ctl.rv = OK /\ ~ctl.intf /\ ctl.file0 = NoFile
    /\ \E r \in Reqs :
          /\ req[r].pc = "finalized" /\ ~req[r].canceled /\ ~req[r].intf
          /\ req[r].cb /\ req[r].cbStatus = OK /\ req[r].file0 = NoFile

(* C2: when the file exists at the exclusive open, the creation fails with *)
(* the system-call error of the open step, which is its only system call:  *)
(* nothing is closed or unlinked, no descriptor of the operation is open,  *)
(* and the existing file is as it was (unless another operation changed    *)
(* the name meanwhile).                                                    *)
C2_ExistingFileUntouched ==
    /\ (CtlCreated /\ ctl.file0 # NoFile) =>
          /\ ctl.rv = UV__ERROR
          /\ Len(ctl.calls) = 1 /\ OpenFailed(ctl.calls)
          /\ ctl.errmsg = uvSysErrMsg("open", ctl.calls[1][2])
          /\ FdOf(ctl.id) \notin fds
          /\ ~ctl.intf => files[ctl.filename] = ctl.file0
    /\ \A r \in Reqs :
          (ReqWorked(r) /\ req[r].file0 # NoFile) =>
             /\ req[r].wstatus = UV__ERROR
             /\ Len(req[r].calls) = 1 /\ OpenFailed(req[r].calls)
             /\ ~req[r].canceled =>
                   /\ req[r].status = UV__ERROR
                   /\ req[r].errmsg = uvSysErrMsg("open", req[r].calls[1][2])
             /\ FdOf(req[r].id) \notin fds
             /\ ~req[r].intf => files[req[r].filename] = req[r].file0

C2_Witness ==
    /\ CtlCreated /\ ctl.calls = << <<"open", "EEXIST">> >> /\ ~ctl.intf
    /\ \E r \in Reqs :
          /\ req[r].pc = "finalized" /\ ~req[r].intf /\ req[r].canceled
          /\ req[r].calls = << <<"open", "EEXIST">> >>

(* C3: a creation that failed at the exclusive open made no other call and *)
(* left the directory as it was; one that failed at the preallocation      *)
(* closed its descriptor and unlinked the path before it returned, so the  *)
(* file does not exist (unless another operation made it meanwhile); in    *)
(* both cases no descriptor the operation opened is open.                  *)
C3_NoHalfCreatedFile ==
    /\ (CtlCreated /\ OpenFailed(ctl.calls)) =>
          /\ ctl.rv = UV__ERROR /\ Len(ctl.calls) = 1
          /\ FdOf(ctl.id) \notin fds
          /\ ~ctl.intf => files[ctl.filename] = ctl.file0
    /\ (CtlCreated /\ FallocateFailed(ctl.calls)) =>
          /\ ctl.rv = UV__ERROR
          /\ Len(ctl.calls) = 4 /\ EndsWithCleanup(ctl.calls)
          /\ FdOf(ctl.id) \notin fds
          /\ ~ctl.intf => ~Exists(ctl.filename)
    /\ \A r \in Reqs :
          /\ (ReqWorked(r) /\ OpenFailed(req[r].calls)) =>
                /\ req[r].wstatus = UV__ERROR /\ Len(req[r].calls) = 1
                /\ FdOf(req[r].id) \notin fds
                /\ ~req[r].intf => files[req[r].filename] = req[r].file0
          /\ (ReqWorked(r) /\ FallocateFailed(req[r].calls)) =>
                /\ req[r].wstatus = UV__ERROR
                /\ Len(req[r].calls) = 4 /\ EndsWithCleanup(req[r].calls)
                /\ FdOf(req[r].id) \notin fds
                /\ ~req[r].intf => ~Exists(req[r].filename)

C3_Witness ==
    /\ CtlCreated /\ FallocateFailed(ctl.calls) /\ ~ctl.intf
    /\ \E r \in Reqs :
          /\ ReqWorked(r) /\ FallocateFailed(req[r].calls) /\ ~req[r].intf

(* C4, as claimed: a creation whose directory sync failed reports an error *)
(* and leaves the created file in place with the size asked for.           *)
C4_FileKeptOnSyncFailure ==
    /\ (CtlCreated /\ SyncDirFailed(ctl.calls) /\ ~ctl.intf) =>
          /\ ctl.rv = UV__ERROR
          /\ files[ctl.filename] = Created(ctl.id, ctl.size)
    /\ \A r \in Reqs :
          (ReqWorked(r) /\ SyncDirFailed(req[r].calls) /\ ~req[r].intf) =>
             /\ req[r].wstatus = UV__ERROR
             /\ files[req[r].filename] = Created(req[r].id, req[r].size)

(* C4, as amended: a creation whose directory sync failed reports the      *)
(* error of the directory sync and cleans up as after a failed             *)
(* preallocation: the descriptor is closed and the path unlinked, so the   *)
(* file does not exist when the operation returns (unless another          *)
(* operation made it meanwhile).                                           *)
C4_CleanupOnSyncFailure ==
    /\ (CtlCreated /\ SyncDirFailed(ctl.calls)) =>
          /\ ctl.rv = UV__ERROR
          /\ ctl.errmsg[1] \in {"open directory", "fsync directory"}
          /\ EndsWithCleanup(ctl.calls)
          /\ FdOf(ctl.id) \notin fds
          /\ ~ctl.intf => ~Exists(ctl.filename)
    /\ \A r \in Reqs :
          (ReqWorked(r) /\ SyncDirFailed(req[r].calls)) =>
             /\ req[r].wstatus = UV__ERROR
             /\ ~req[r].canceled =>
                   req[r].errmsg[1] \in {"open directory", "fsync directory"}
             /\ EndsWithCleanup(req[r].calls)
             /\ FdOf(req[r].id) \notin fds
             /\ ~req[r].intf => ~Exists(req[r].filename)

C4_Witness ==
    /\ CtlCreated /\ SyncDirFailed(ctl.calls) /\ ~ctl.intf
    /\ \E r \in Reqs :
          /\ ReqWorked(r) /\ SyncDirFailed(req[r].calls) /\ ~req[r].intf

(* C5: when the after-work callback runs for a canceled request whose      *)
(* worker recorded success, the descriptor is closed and the file          *)
(* unlinked after the creation's calls, so the file does not exist         *)
(* afterwards (unless another operation made it), and the request and its  *)
(* callback get UV__CANCELED, never success.                               *)
C5_CanceledSuccessUndone ==
    \A r \in Reqs :
       (req[r].pc = "finalized" /\ req[r].canceled /\ req[r].wstatus = OK) =>
          /\ req[r].status = UV__CANCELED
          /\ req[r].cbStatus # OK
          /\ req[r].cb => req[r].cbStatus = UV__CANCELED
          /\ Len(req[r].calls) = Len(CreateCalls) + 2
          /\ EndsWithCleanup(req[r].calls)
          /\ FdOf(req[r].id) \notin fds
          /\ ~req[r].intf => ~Exists(req[r].filename)

C5_Witness ==
    \E r \in Reqs :
       /\ req[r].pc = "finalized" /\ req[r].canceled /\ req[r].wstatus = OK
       /\ req[r].cb /\ ~req[r].intf /\ req[r].cancelAt = "worked"

(* C6: a request on which UvFsCreateFileCancel was called while it was in  *)
(* flight (queued, running or finished) ends, whatever its worker          *)
(* recorded, with the status UV__CANCELED and the message "canceled",      *)
(* which is the message its callback finds in the context.                 *)
C6_CanceledAlwaysCanceled ==
    \A r \in Reqs :
       (req[r].pc = "finalized" /\ req[r].canceled) =>
          /\ req[r].status = UV__CANCELED
          /\ req[r].errmsg = errMsgPrintf("canceled")
          /\ req[r].cbErrMsg = errMsgPrintf("canceled")
          /\ req[r].cb => req[r].cbStatus = UV__CANCELED
          /\ req[r].cbStatus \in {Unset, UV__CANCELED}

\* Two canceled requests: one canceled before its worker started, whose
\* worker then succeeded; one canceled while its worker ran, which failed.
C6_Witness ==
    \E r1 \in Reqs, r2 \in Reqs :
       /\ req[r1].pc = "finalized" /\ req[r1].cancelAt = "queued"
       /\ req[r1].wstatus = OK /\ req[r1].cb
       /\ req[r2].pc = "finalized" /\ req[r2].cancelAt \in {"fallocate", "syncdir"}
       /\ req[r2].wstatus = UV__ERROR /\ req[r2].cb

\* What holds of the deliveries in every state: the worker records the
\* outcome at most once, the after-work callback runs at most once and only
\* after the worker recorded the outcome, and the completion callback is
\* invoked with the final status exactly once if there is one.
DeliveredAtMostOnce(r) ==
    /\ req[r].workCount <= 1 /\ req[r].afterCount <= 1
    /\ req[r].workCount = 1 <=> ReqWorked(r)
    /\ req[r].afterCount = 1 <=> req[r].pc = "finalized"
    /\ req[r].pc = "finalized" =>
          /\ req[r].cbCount = IF req[r].cb THEN 1 ELSE 0
          /\ req[r].cb => req[r].cbStatus = req[r].status
    /\ req[r].pc # "finalized" => req[r].cbCount = 0

(* C7, as claimed: the completion callback of every finalized request has  *)
(* been invoked exactly once.                                              *)
C7_CallbackExactlyOnce ==
    \A r \in Reqs : req[r].pc = "finalized" => req[r].cbCount = 1

(* C7, as amended: for every accepted request the worker records the       *)
(* outcome once, the after-work callback then runs exactly once, and it    *)
(* invokes the completion callback exactly once with the final status if   *)
(* the request has one (cb may be NULL: then it is never invoked); under   *)
(* fair scheduling every request in flight is eventually finalized.        *)
C7_DeliveredOnce ==
    /\ [](\A r \in Reqs : DeliveredAtMostOnce(r))
    /\ \A r \in Reqs : InFlight(r) ~> (req[r].pc = "finalized")

C7_Witness ==
    \E r1 \in Reqs, r2 \in Reqs :
       /\ req[r1].pc = "finalized" /\ req[r1].cb /\ req[r1].cbCount = 1
       /\ req[r2].pc = "finalized" /\ ~req[r2].cb /\ req[r2].cbCount = 0

\* UvFsTruncateAndRenameFile was called with a size > 0; with size 0.
CtlTruncate == ctl.op = "truncate" /\ ctl.size > 0
CtlDiscard == ctl.op = "truncate" /\ ctl.size = 0
Renamed(calls) == \E i \in 1..Len(calls) : calls[i] = <<"rename", "ok">>
\* The system calls up to a rename.
RenameCalls ==
    << <<"open", "ok">>, <<"truncate", "ok">>, <<"fsync", "ok">>,
       <<"close", "ok">>, <<"rename", "ok">> >>

(* C8: with size > 0 the rename is made only after the truncate, the fsync *)
(* and the close succeeded; in every state of the operation, failure exits *)
(* included, the destination name holds what it held at the call or the    *)
(* original file with exactly the size asked for; on success the source    *)
(* name is gone and the destination is that file (unless another operation *)
(* changed one of the names meanwhile).                                    *)
C8_PublishedInOneStep ==
    CtlTruncate =>
       /\ Renamed(ctl.calls) =>
             Len(ctl.calls) >= 5 /\ SubSeq(ctl.calls, 1, 5) = RenameCalls
       /\ (ctl.pc = "done" /\ ctl.rv = OK) => Renamed(ctl.calls)
       /\ ~ctl.intf =>
             IF Renamed(ctl.calls)
             THEN /\ files[ctl.filename2] =
                        [ino |-> ctl.file0.ino, size |-> ctl.size]
                  /\ ~Exists(ctl.filename)
             ELSE files[ctl.filename2] = ctl.file2

C8_Witness ==
    /\ CtlTruncate /\ ctl.pc = "done" /\ ctl.rv = OK /\ ~ctl.intf
    /\ ctl.file0.size # ctl.size /\ ctl.file2 # NoFile

\* The operation is under way and has not renamed.
BeforeRename ==
    CtlTruncate /\ ctl.pc \notin {"idle", "done"} /\ ~Renamed(ctl.calls)

(* C9, as claimed: at any point before the rename the original file is     *)
(* under its original name as it was before the call, and the final name   *)
(* is as it was.                                                           *)
C9_UntouchedBeforeRename ==
    (BeforeRename /\ ~ctl.intf) =>
       /\ files[ctl.filename] = ctl.file0
       /\ files[ctl.filename2] = ctl.file2

(* C9, as amended: at any point before the rename the original file is     *)
(* still under its original name and the final name is as it was before    *)
(* the call; the original file has its size of before the call until the   *)
(* truncate step and the size asked for after it (unless another operation *)
(* changed one of the names meanwhile).                                    *)
C9_PresentBeforeRename ==
    (BeforeRename /\ ~ctl.intf) =>
       /\ ctl.file0 # NoFile
       /\ files[ctl.filename].ino = ctl.file0.ino
       /\ files[ctl.filename].size =
             IF ctl.pc = "truncate" THEN ctl.file0.size ELSE ctl.size
       /\ files[ctl.filename2] = ctl.file2

C9_Witness ==
    /\ BeforeRename /\ ~ctl.intf /\ ctl.pc = "rename"
    /\ ctl.file0.size # ctl.size

(* C10: with size 0 the first system call is the unlink of the source, no  *)
(* open, truncate or rename is made, and after a successful unlink the     *)
(* operation goes on to the directory sync; the source is then gone and    *)
(* the destination name is as it was before the call (unless another       *)
(* operation changed one of the names meanwhile).                          *)
C10_DiscardLeavesDestination ==
    CtlDiscard =>
       /\ Len(ctl.calls) >= 1 /\ ctl.calls[1][1] = "unlink"
       /\ \A i \in 2..Len(ctl.calls) :
             ctl.calls[i][1] \in
                {"open directory", "fsync directory", "close directory"}
       /\ ctl.fd = NoFd
       /\ ctl.calls[1][2] = "ok" =>
             /\ ctl.pc \in {"sync", "done"}
             /\ ctl.pc = "done" =>
                   Len(ctl.calls) >= 2 /\ ctl.calls[2][1] = "open directory"
             /\ ~ctl.intf => ~Exists(ctl.filename)
       /\ ~ctl.intf => files[ctl.filename2] = ctl.file2

C10_Witness ==
    /\ CtlDiscard /\ ctl.pc = "done" /\ ctl.rv = OK /\ ~ctl.intf
    /\ ctl.file0 # NoFile /\ ctl.file2 # NoFile

\* UvFsRemoveFile has returned.
CtlRemoved == ctl.op = "remove" /\ ctl.pc = "done"
\* UvFsTruncateAndRenameFile with size > 0 has returned after it opened the
\* source, without having renamed it.
TruncateFailedAfterOpen ==
    /\ CtlTruncate /\ ctl.pc = "done"
    /\ ctl.calls[1] = <<"open", "ok">>
    /\ ~Renamed(ctl.calls)
\* Some system call of the list failed.
SomeFailed(calls) == \E i \in 1..Len(calls) : calls[i][2] # "ok"

(* C11: when UvFsTruncateAndRenameFile returns after it opened the source  *)
(* and the truncate, the fsync or the rename failed, it reports an error   *)
(* whose message names the failed call, its descriptor is closed, it made  *)
(* no unlink, the source is still under its name and the destination name  *)
(* is as it was at the call (unless another operation changed one of the   *)
(* names meanwhile).                                                       *)
C11_SourceKeptOnFailure ==
    TruncateFailedAfterOpen =>
       /\ ctl.rv = UV__ERROR
       /\ ctl.fd # NoFd /\ ctl.fd \notin fds
       /\ \E i \in 2..Len(ctl.calls) :
             /\ ctl.calls[i][1] \in {"truncate", "fsync", "rename"}
             /\ ctl.calls[i][2] # "ok"
             /\ ctl.errmsg = uvSysErrMsg(ctl.calls[i][1], ctl.calls[i][2])
       /\ \A i \in 1..Len(ctl.calls) : ctl.calls[i][1] # "unlink"
       /\ ~ctl.intf =>
             /\ Exists(ctl.filename)
             /\ files[ctl.filename].ino = ctl.file0.ino
             /\ files[ctl.filename2] = ctl.file2

C11_Witness ==
    /\ TruncateFailedAfterOpen /\ ~ctl.intf
    /\ ctl.errmsg = uvSysErrMsg("fsync", "EIO")
    /\ ctl.file2 # NoFile

(* C12: UvFsRemoveFile returns an error exactly when its unlink failed:    *)
(* then the message is the system-call error of "unlink", no other call    *)
(* was made and the directory is as it was (a name that does not exist     *)
(* always fails so); after a successful unlink the directory sync is       *)
(* attempted, the result is success whether or not the sync succeeded, and *)
(* the file does not exist (unless another operation made it meanwhile).   *)
C12_RemoveFailsIffUnlinkFails ==
    CtlRemoved =>
       /\ ctl.calls[1][1] = "unlink"
       /\ (ctl.rv # OK) <=> (ctl.calls[1][2] # "ok")
       /\ ctl.file0 = NoFile => ctl.calls[1][2] \in {"ENOENT", "EIO"}
       /\ ctl.calls[1][2] # "ok" =>
             /\ ctl.rv = UV__ERROR
             /\ ctl.errmsg = uvSysErrMsg("unlink", ctl.calls[1][2])
             /\ Len(ctl.calls) = 1
             /\ ~ctl.intf => files[ctl.filename] = ctl.file0
       /\ ctl.calls[1][2] = "ok" =>
             /\ ctl.rv = OK
             /\ Len(ctl.calls) >= 2 /\ ctl.calls[2][1] = "open directory"
             /\ ~ctl.intf => ~Exists(ctl.filename)

C12_Witness ==
    /\ CtlRemoved /\ ctl.rv = OK /\ ~ctl.intf
    /\ ctl.file0 # NoFile /\ SomeFailed(ctl.calls)

(***************************************************************************)
(* Vocabulary of the claims about steps                                    *)
(***************************************************************************)
\* In this step an operation of the control thread returns.
CtlReturns == ctl'.pc = "done" /\ (ctl.pc # "done" \/ ctl'.id # ctl.id)
\* In this step the after-work callback of request r runs.
Finalizes(r) == req[r].pc = "worked" /\ req'[r].pc = "finalized"
\* In this step an operation reports a failure or a cancellation.
FailedStep ==
    \/ CtlReturns /\ ctl'.rv # OK
    \/ \E r \in Reqs : Finalizes(r) /\ req'[r].status # OK
\* The positions of a request whose worker has not returned yet.
WorkerPcs == {"queued", "fallocate", "syncdir", "err_after_open"}
\* In this step the worker of request r makes its next system calls.
WorkerActs(r) == req[r].pc \in WorkerPcs /\ req'[r].calls # req[r].calls
\* The fields of struct UvFsCreateFile; those the worker reads or writes.
ReqFields(q) ==
    <<q.filename, q.size, q.cb, q.canceled, q.status, q.fd, q.errmsg>>
WorkerFields(q) == <<q.filename, q.size, q.status, q.fd, q.errmsg>>

(* C13, as claimed: an operation that reports success leaves the message   *)
(* of the context as it was before the operation: no step of a synchronous *)
(* operation that returns 0 changes it (nor does any other step while the  *)
(* operation is under way), and neither does the after-work callback of a  *)
(* request that ends with status 0.                                        *)
C13_SuccessKeepsErrMsg ==
    [][/\ (CtlReturns /\ ctl'.rv = OK) => fs'.errmsg = fs.errmsg
       /\ (~CtlFree /\ ctl'.pc # "done") => fs'.errmsg = fs.errmsg
       /\ \A r \in Reqs :
             (Finalizes(r) /\ req'[r].status = OK) => fs'.errmsg = fs.errmsg
      ]_vars

(* C14, as claimed: an operation that reports a failure or a cancellation  *)
(* leaves in the context the non-empty message it produced, and no other   *)
(* step changes the message of the context, so that the message is always  *)
(* the one of the most recent failure or cancellation.                     *)
C14_ErrMsgOfLastFailure ==
    [][/\ (CtlReturns /\ ctl'.rv # OK) =>
             /\ fs'.errmsg # NULL
             /\ ctl'.errmsg # NULL => fs'.errmsg = ctl'.errmsg
             /\ ctl'.errmsg = NULL =>
                   fs'.errmsg[1] \in {"open directory", "fsync directory"}
       /\ \A r \in Reqs :
             (Finalizes(r) /\ req'[r].status # OK) =>
                fs'.errmsg # NULL /\ fs'.errmsg = req'[r].errmsg
       /\ ~FailedStep => fs'.errmsg = fs.errmsg
      ]_vars

(* C15: a step of a worker never changes the context; the message of the   *)
(* context changes only in a step in which an operation of the control     *)
(* thread returns or an after-work callback runs; an after-work callback   *)
(* runs only while no synchronous operation is under way, one request at a *)
(* time, and invokes the callback in the same step.                        *)
C15_ErrMsgOnControlThread ==
    [][/\ (\E r \in Reqs : WorkerActs(r)) => fs' = fs
       /\ fs' # fs => (CtlReturns \/ \E r \in Reqs : Finalizes(r))
       /\ \A r1 \in Reqs, r2 \in Reqs :
             (Finalizes(r1) /\ Finalizes(r2)) => r1 = r2
       /\ \A r \in Reqs :
             Finalizes(r) =>
                /\ CtlFree /\ ctl'.pc = ctl.pc /\ ctl'.id = ctl.id
                /\ fs'.errmsg = req'[r].errmsg
                /\ req'[r].cbCount = req[r].cbCount + (IF req[r].cb THEN 1 ELSE 0)
                /\ req'[r].cbErrMsg = fs'.errmsg
      ]_vars

\* Two workers have returned with a failure and the context has no message.
C15_Witness ==
    \E r1 \in Reqs, r2 \in Reqs :
       /\ r1 # r2
       /\ req[r1].pc = "worked" /\ req[r1].errmsg # NULL
       /\ req[r2].pc = "worked" /\ req[r2].errmsg # NULL
       /\ req[r1].errmsg # req[r2].errmsg
       /\ fs.errmsg = NULL

(* C16, as claimed: until the worker of a request has returned, no step    *)
(* other than the worker's changes any field of the request.               *)
C16_NoAccessWhileWorking ==
    [][\A r \in Reqs :
          (req[r].pc \in WorkerPcs /\ ~WorkerActs(r)) =>
             ReqFields(req'[r]) = ReqFields(req[r])
      ]_vars

(* C16, as amended: until the worker of a request has returned, a step of  *)
(* the control thread changes no field the worker uses (it may set         *)
(* canceled); the worker changes neither canceled nor its inputs, writes   *)
(* the outcome once, in its last step, and changes nothing of the request  *)
(* afterwards; the after-work callback then runs once.                     *)
C16_WorkerFieldsExclusive ==
    [][\A r \in Reqs :
          /\ (req[r].pc \in WorkerPcs /\ ~WorkerActs(r)) =>
                /\ WorkerFields(req'[r]) = WorkerFields(req[r])
                /\ req'[r].cb = req[r].cb
                /\ req[r].canceled => req'[r].canceled
          /\ WorkerActs(r) =>
                /\ req'[r].canceled = req[r].canceled
                /\ req'[r].cb = req[r].cb
                /\ req'[r].filename = req[r].filename
                /\ req'[r].size = req[r].size
                /\ IF req'[r].pc = "worked"
                   THEN req[r].workCount = 0 /\ req'[r].workCount = 1
                   ELSE /\ WorkerFields(req'[r]) = WorkerFields(req[r])
                        /\ req'[r].workCount = 0
          /\ (req[r].pc \in {"worked", "finalized"} /\ req'[r].id = req[r].id) =>
                /\ req'[r].workCount = req[r].workCount
                /\ req'[r].wstatus = req[r].wstatus
          /\ Finalizes(r) => req[r].afterCount = 0 /\ req'[r].afterCount = 1
      ]_vars

\* A request canceled while its worker ran, whose worker then succeeded.
C16_Witness ==
    \E r \in Reqs :
       /\ req[r].pc = "finalized" /\ req[r].cancelAt = "fallocate"
       /\ req[r].wstatus = OK /\ req[r].workCount = 1

\* The error messages that some owner holds: the context, an operation of
\* the control thread or a worker on its way to err:, a request whose
\* worker has returned and whose after-work callback has not run yet.
Owned ==
    (IF fs.errmsg # NULL THEN 1 ELSE 0)
    + (IF ctl.pc = "err_after_open" /\ ctl.errmsg # NULL THEN 1 ELSE 0)
    + Cardinality({r \in Reqs :
                     \/ req[r].pc = "err_after_open" /\ req[r].local # NULL
                     \/ req[r].pc = "worked" /\ req[r].errmsg # NULL})

(* C17, as claimed: every error message allocated and not released is held *)
(* by exactly one owner: none was overwritten without being released       *)
(* (leaked) and none was released twice.                                   *)
C17_MessagesReleasedOnce == heap = Owned

\* A call that changed the entries of the directory, in an operation op.
DirMutation(op, call) ==
    /\ call[2] = "ok"
    /\ \/ call[1] \in {"unlink", "rename"}
       \/ op = "create" /\ call[1] = "open"
\* After every such call of the list a directory sync is attempted.
SyncAttemptedAfter(op, calls) ==
    \A i \in 1..Len(calls) :
       DirMutation(op, calls[i]) =>
          \E j \in (i + 1)..Len(calls) : calls[j][1] = "open directory"

(* C18, as claimed: when an operation has completed, every call of it that *)
(* changed the entries of the directory (a creating open, an unlink, a     *)
(* rename) was followed by an attempt to sync the directory.               *)
C18_SyncAfterEveryMutation ==
    /\ ctl.pc = "done" => SyncAttemptedAfter(ctl.op, ctl.calls)
    /\ \A r \in Reqs :
          req[r].pc = "finalized" => SyncAttemptedAfter("create", req[r].calls)

\* The results of the calls of a creation whose result the code tests.
IsTested(call) ==
    call[1] \in {"open", "posix_fallocate", "open directory", "fsync directory"}
Outcomes(calls) == SelectSeq(calls, IsTested)
\* The worker of request r has returned and its outcome stands as recorded.
WorkerOutcome(r) ==
    req[r].pc = "worked" \/ (req[r].pc = "finalized" /\ ~req[r].canceled)
\* UvFsCreateFile2 and the worker of r ran on the same inputs, found the
\* same (a file or none) and saw the same results of the tested calls, no
\* other operation having changed their names.
SameRun(r) ==
    /\ CtlCreated /\ WorkerOutcome(r)
    /\ ctl.size = req[r].size
    /\ (ctl.file0 = NoFile) <=> (req[r].file0 = NoFile)
    /\ Outcomes(ctl.calls) = Outcomes(req[r].calls)
    /\ ~ctl.intf /\ ~req[r].intf

(* C19: for the same size, the same initial state of the name and the same *)
(* results of the tested system calls, UvFsCreateFile2 and the worker make *)
(* the same system calls in the same order, end with the same status and   *)
(* message, both with their descriptor open (success) or closed (failure), *)
(* and leave the same under their names: the file found, nothing, or the   *)
(* new file of the size asked for.                                         *)
C19_WorkerDoesAsSync ==
    \A r \in Reqs :
       SameRun(r) =>
          /\ ctl.calls = req[r].calls
          /\ ctl.rv = req[r].wstatus /\ ctl.rv = req[r].status
          /\ ctl.errmsg = req[r].errmsg
          /\ IF ctl.rv = OK
             THEN /\ ctl.fd = FdOf(ctl.id) /\ ctl.fd \in fds
                  /\ req[r].fd = FdOf(req[r].id) /\ req[r].fd \in fds
                  /\ files[ctl.filename] = Created(ctl.id, ctl.size)
                  /\ files[req[r].filename] = Created(req[r].id, req[r].size)
             ELSE /\ FdOf(ctl.id) \notin fds /\ FdOf(req[r].id) \notin fds
                  /\ files[ctl.filename] = ctl.file0
                  /\ files[req[r].filename] = req[r].file0

C19_Witness ==
    \E r \in Reqs :
       /\ SameRun(r) /\ req[r].pc = "worked"
       /\ SyncDirFailed(ctl.calls) /\ Len(req[r].calls) = 7

\* In this step request r (its worker or its after-work callback) makes
\* system calls.
RequestActs(r) == req'[r].id = req[r].id /\ req'[r].calls # req[r].calls
\* Request r holds a successful outcome and its descriptor is open.
HoldsFile(r) ==
    /\ ReqWorked(r) /\ req[r].status = OK
    /\ req[r].fd = FdOf(req[r].id) /\ req[r].fd \in fds

(* C20: a request whose exclusive open failed makes no other system call,  *)
(* ever; no two requests for the same name hold a successful outcome with  *)
(* an open descriptor at the same time; and a step of a request removes or *)
(* replaces only the file that this request created under its own name     *)
(* (all this unless a synchronous operation changed the name meanwhile).   *)
C20_OnlyOwnFileRemoved ==
    /\ [](/\ \A r \in Reqs :
                (req[r].pc # "idle" /\ OpenFailed(req[r].calls)) =>
                   Len(req[r].calls) = 1
          /\ \A r1 \in Reqs, r2 \in Reqs :
                (/\ r1 # r2 /\ req[r1].filename = req[r2].filename
                 /\ ~req[r1].intfCtl /\ ~req[r2].intfCtl) =>
                   ~(HoldsFile(r1) /\ HoldsFile(r2)))
    /\ [][\A r \in Reqs : \A f \in Names :
             (/\ RequestActs(r) /\ ~req[r].intfCtl
              /\ Exists(f) /\ files'[f].ino # files[f].ino) =>
                /\ f = req[r].filename
                /\ files[f].ino = IdIno(req[r].id)
         ]_vars

\* Two requests for the same name: one created the file and holds it, the
\* other, canceled, failed at its open and left the file alone.
C20_Witness ==
    \E r1 \in Reqs, r2 \in Reqs :
       /\ r1 # r2 /\ req[r1].filename = req[r2].filename
       /\ req[r1].pc = "finalized" /\ HoldsFile(r1)
       /\ files[req[r1].filename] = Created(req[r1].id, req[r1].size)
       /\ req[r2].pc = "finalized" /\ req[r2].canceled
       /\ req[r2].calls = << <<"open", "EEXIST">> >>
====
